---- MODULE Spec2Model ----
\* Aragorn main process: the upload orchestration of UploaderManager
\* (packages/aragorn-app-main/src/uploaderManager.ts), its Ipc entry points and
\* the CustomUploader backend.  JavaScript runs one task at a time, so every
\* action below is one run-to-completion task of the event loop: the synchronous
\* part of a handler up to its first pending await, the completion of one
\* backend upload together with the continuations it wakes, or one timer.
EXTENDS Naturals, Sequences, FiniteSets, TLC

VARIABLES
    uploaderProfiles,          \* uploaderProfileManager.getAll()
    defaultUploaderProfileId,  \* setting.configuration.defaultUploaderProfileId
    configuration,             \* setting.configuration: urlType, autoCopy, autoRecover, showNotifaction
    options,                   \* backend name -> this.options of the registry's instance
    calls,                     \* one record per upload() invocation, in invocation order
    clipboard,                 \* the system clipboard text
    timers,                    \* pending setTimeout callbacks, in scheduling order
    reupload,                  \* the last 'file-reupload' request and the calls it made
    probe,                     \* one CustomUploader.upload call observed in isolation
    manage                     \* one record per getFileList / deleteFile / createDirectory call

vars == <<uploaderProfiles, defaultUploaderProfileId, configuration, options, calls,
          clipboard, timers, reupload, probe, manage>>

-----------------------------------------------------------------------------
\* Bounds of the model.

\* files handed to one direct upload() call
MaxFiles == 2
\* upload() invocations in one run
MaxCalls == 2
\* files submitted in one run, over all calls and 'file-reupload' requests
MaxTotalFiles == 3
\* getFileList / deleteFile / createDirectory calls in one run
MaxManage == 2

-----------------------------------------------------------------------------
\* Values.

Undefined == [undefined |-> TRUE]

Paths == <<"a.png", "b.png", "c.png", "d.png", "e.png">>

UrlOk == "https://x/y.png"

\* Notification titles and bodies (the literals of uploaderManager.ts, in ASCII).
TitleUploadError == "upload-error"              \* line 73, 76, 86, 130
BodyProfileNotFound == "profile-not-found"      \* line 73
BodyDefaultNotSet == "default-not-set"          \* line 75, profiles exist
BodyNoProfile == "no-profile-configured"        \* line 75, no profile
BodyUploaderNotFound(name) == "uploader-not-found:" \o name  \* line 85
TitleBatchSuccess == "batch-success"            \* line 180
TitleBatchFail == "batch-fail"                  \* line 183
TitleBatchEnd == "batch-end"                    \* line 187
TitleSuccess == "upload-success"                \* line 218, 235
BodyCopied == "link-copied"                     \* line 219
TitleRecovered == "clipboard-recovered"         \* line 227
BodyRecovered == "clipboard-content-recovered"  \* line 228
TitleFail == "upload-fail"                      \* line 242
BodyNotCaught == "error-not-caught"             \* line 242
DescUploadFail == "upload-failed"               \* part_001 line 63
\* reading a property of undefined raises this TypeError (line 242, failFile undefined)
MsgUndefinedErrorMessage == "Cannot read property 'errorMessage' of undefined"

Notification(title, body) == [title |-> title, body |-> body]

\* setTimeout delay of the clipboard restoration, in milliseconds
RestoreDelay == 5000

-----------------------------------------------------------------------------
\* The backend registry (core.getUploaderByName) and the stored profiles.

CustomName == "custom"
OtherName == "other"
Registry == {CustomName, OtherName}

Option(name, value) == [name |-> name, value |-> value]

defaultOptions == <<Option("responseUrlFieldName", "url"), Option("requestParams", "")>>
OptionsA == <<Option("responseUrlFieldName", "url"), Option("requestParams", "{}")>>
OptionsB == <<Option("responseUrlFieldName", "link"), Option("requestParams", "")>>
OptionsBad == <<Option("responseUrlFieldName", "url"), Option("requestParams", "{k")>>

UploaderProfile(id, uploaderName, uploaderOptions) ==
    [id |-> id, uploaderName |-> uploaderName, uploaderOptions |-> uploaderOptions]

StoredProfiles ==
    << UploaderProfile("p1", CustomName, OptionsA),
       UploaderProfile("p2", CustomName, OptionsB),
       UploaderProfile("p3", OtherName, <<>>),
       UploaderProfile("p4", "ghost", <<>>) >>

\* the ids the renderer sends: stored ones and one that is stored no longer
ProfileIds == {"p1", "p2", "p3", "p4", "p9"}

UrlTypes == {"URL", "HTML", "Markdown", "BBCode"}

-----------------------------------------------------------------------------
\* CustomUploader (src/unnamed/part_001).

\* getConfig: the option list collapsed into name -> value, a later entry of a
\* name overwriting an earlier one.
getConfig(opts) ==
    [n \in {opts[i].name : i \in 1..Len(opts)} |->
        opts[CHOOSE i \in 1..Len(opts) :
                /\ opts[i].name = n
                /\ \A j \in (i+1)..Len(opts) : opts[j].name # n].value]

\* config[name], the empty string standing for undefined (both are falsy).
ConfigValue(config, name) == IF name \in DOMAIN config THEN config[name] ELSE ""

\* JSON.parse on the query-parameter templates of the stored profiles.
ValidJSON == {"{}", "{\"k\":\"v\"}"}
MsgSyntaxError == "Unexpected token k in JSON at position 1"

NoError == [raised |-> FALSE]
Error(message) == [raised |-> TRUE, message |-> message]

\* What one upload() call of the CustomUploader meets: the outcome of
\* formData.getLength (it stats the file), the outcome of the axios request, and
\* the response body.
ResponseFields == {"url", "link"}
Bodies ==
    {[kind |-> "null"], [kind |-> "nodata"]}
    \cup {[kind |-> "data", data |-> f] :
             f \in UNION {[d -> {UrlOk, ""}] : d \in SUBSET ResponseFields}}
CustomRuns ==
    [lengthError : {NoError, Error("ENOENT: no such file")},
     requestError : {NoError, Error("Network Error")},
     body : Bodies]

\* res?.data?.[field]: undefined (here "") unless the body has data with the field
ResponseUrl(body, field) ==
    IF body.kind = "data" /\ field \in DOMAIN body.data THEN body.data[field] ELSE ""

SuccessResponse(url) == [success |-> TRUE, url |-> url]
FailResponse(desc) == [success |-> FALSE, desc |-> desc]
Returned(res) == [thrown |-> FALSE, res |-> res]
Thrown(message) == [thrown |-> TRUE, message |-> message]

\* the response field tested for being there, not for being truthy
CustomUploaderTryFieldPresent(config, run) ==
    LET requestParams == ConfigValue(config, "requestParams")
        field == ConfigValue(config, "responseUrlFieldName")
    IN  IF run.lengthError.raised THEN Thrown(run.lengthError.message)
        ELSE IF requestParams # "" /\ requestParams \notin ValidJSON
             THEN Thrown(MsgSyntaxError)
        ELSE IF run.requestError.raised THEN Thrown(run.requestError.message)
        ELSE IF run.body.kind = "data" /\ field \in DOMAIN run.body.data
             THEN Returned(SuccessResponse(run.body.data[field]))
        ELSE Returned(FailResponse(DescUploadFail))

\* The try block of upload (lines 28-65): the first failing step raises.
CustomUploaderTry(config, run) ==
    LET requestParams == ConfigValue(config, "requestParams")
        imageUrl == ResponseUrl(run.body, ConfigValue(config, "responseUrlFieldName"))
    IN  IF run.lengthError.raised THEN Thrown(run.lengthError.message)
        ELSE IF requestParams # "" /\ requestParams \notin ValidJSON
             THEN Thrown(MsgSyntaxError)
        ELSE IF run.requestError.raised THEN Thrown(run.requestError.message)
        ELSE IF imageUrl # "" THEN Returned(SuccessResponse(imageUrl))
        ELSE Returned(FailResponse(DescUploadFail))

\* The calls of axios (line 51) one upload() makes: the request is issued once
\* getLength and JSON.parse have passed, and never again.
CustomUploaderRequests(config, run) ==
    LET requestParams == ConfigValue(config, "requestParams")
    IN  IF run.lengthError.raised THEN 0
        ELSE IF requestParams # "" /\ requestParams \notin ValidJSON THEN 0
        ELSE 1

\* no catch block: the error goes on to the caller
CustomUploaderRethrow(outcome) == outcome

\* The catch block (lines 66-71): a raised error becomes a returned failure.
CustomUploaderCatch(outcome) ==
    IF outcome.thrown THEN Returned(FailResponse(outcome.message)) ELSE outcome

CustomUploaderUpload(config, run) == CustomUploaderCatch(CustomUploaderTry(config, run))

\* Any other backend of the registry: an Uploader whose upload() promise
\* fulfils with a SuccessResponse or a FailResponse (desc possibly empty), or
\* rejects.
OtherOutcomes ==
    { Returned(SuccessResponse(UrlOk)),
      Returned(FailResponse("")),
      Thrown("socket hang up") }

-----------------------------------------------------------------------------
\* Result presentation (uploaderManager.ts lines 178-245).

\* What a presenter did: notifications shown, clipboard operations, the
\* clipboard afterwards, the snapshots handed to setTimeout, an error raised.
Effects(notes, ops, clip, scheduled) ==
    [notes |-> notes, ops |-> ops, clipboard |-> clip, scheduled |-> scheduled,
     threw |-> FALSE, message |-> ""]
Raise(clip, message) ==
    [notes |-> <<>>, ops |-> <<>>, clipboard |-> clip, scheduled |-> <<>>,
     threw |-> TRUE, message |-> message]

Read(text) == [op |-> "readText", text |-> text]
Write(text) == [op |-> "writeText", text |-> text]

\* the batch judged by its failures alone: no 'all failed' summary
handleBatchUploadedNoAllFailed(successFilesCount, failFilesCount, clip) ==
    IF failFilesCount = 0
    THEN Effects(<<Notification(TitleBatchSuccess, "total:" \o ToString(successFilesCount))>>,
                 <<>>, clip, <<>>)
    ELSE Effects(<<Notification(TitleBatchEnd,
                      "success:" \o ToString(successFilesCount)
                          \o ",fail:" \o ToString(failFilesCount))>>,
                 <<>>, clip, <<>>)

handleBatchUploaded(successFilesCount, failFilesCount, clip) ==
    IF failFilesCount = 0
    THEN Effects(<<Notification(TitleBatchSuccess, "total:" \o ToString(successFilesCount))>>,
                 <<>>, clip, <<>>)
    ELSE IF successFilesCount = 0
    THEN Effects(<<Notification(TitleBatchFail, "total:" \o ToString(failFilesCount))>>,
                 <<>>, clip, <<>>)
    ELSE Effects(<<Notification(TitleBatchEnd,
                      "success:" \o ToString(successFilesCount)
                          \o ",fail:" \o ToString(failFilesCount))>>,
                 <<>>, clip, <<>>)

\* the Markdown link without its leading "!"
FormatUrlPlainLink(urlType, url) ==
    CASE urlType = "URL" -> [return |-> FALSE, clipboardUrl |-> url]
      [] urlType = "HTML" ->
            [return |-> FALSE, clipboardUrl |-> "<img src=\"" \o url \o "\" />"]
      [] urlType = "Markdown" ->
            [return |-> FALSE, clipboardUrl |-> "[" \o url \o "](" \o url \o ")"]
      [] OTHER -> [return |-> TRUE, clipboardUrl |-> url]

\* The switch on urlType (lines 197-209); "return" is TRUE on the default branch.
FormatUrl(urlType, url) ==
    CASE urlType = "URL" -> [return |-> FALSE, clipboardUrl |-> url]
      [] urlType = "HTML" ->
            [return |-> FALSE, clipboardUrl |-> "<img src=\"" \o url \o "\" />"]
      [] urlType = "Markdown" ->
            [return |-> FALSE, clipboardUrl |-> "![" \o url \o "](" \o url \o ")"]
      [] OTHER -> [return |-> TRUE, clipboardUrl |-> url]

ShowIf(flag, notification) == IF flag THEN <<notification>> ELSE <<>>

handleSingleUploaded(successFile, failFile, conf, clip) ==
    IF successFile # Undefined
    THEN LET fmt == FormatUrl(conf.urlType, successFile.url)
             preClipBoardText == IF conf.autoRecover THEN clip ELSE ""
         IN  IF fmt.return THEN Effects(<<>>, <<>>, clip, <<>>)
             ELSE IF conf.autoCopy
             THEN Effects(ShowIf(conf.showNotifaction, Notification(TitleSuccess, BodyCopied)),
                          (IF conf.autoRecover THEN <<Read(clip)>> ELSE <<>>)
                              \o <<Write(fmt.clipboardUrl)>>,
                          fmt.clipboardUrl,
                          IF conf.autoRecover THEN <<preClipBoardText>> ELSE <<>>)
             ELSE Effects(ShowIf(conf.showNotifaction,
                                 Notification(TitleSuccess, fmt.clipboardUrl)),
                          <<>>, clip, <<>>)
    ELSE IF failFile # Undefined
    THEN Effects(<<Notification(TitleFail,
                      IF failFile.errorMessage # "" THEN failFile.errorMessage
                      ELSE BodyNotCaught)>>,
                 <<>>, clip, <<>>)
    ELSE Raise(clip, MsgUndefinedErrorMessage)

-----------------------------------------------------------------------------
\* UploaderManager.upload (uploaderManager.ts lines 60-133).

\* The mutable world an upload() call acts on.
World == [calls |-> calls, options |-> options, clipboard |-> clipboard, timers |-> timers]

\* Array.prototype.find: the first stored profile with the id, or undefined.
FindProfile(profiles, id) ==
    IF \E i \in 1..Len(profiles) : profiles[i].id = id
    THEN profiles[CHOOSE i \in 1..Len(profiles) :
                     /\ profiles[i].id = id
                     /\ \A j \in 1..(i-1) : profiles[j].id # id]
    ELSE Undefined

\* the operands of || exchanged: the default wins over the explicit id
EffectiveIdDefaultFirst(customUploaderProfileId, defaultId) ==
    IF defaultId # "" THEN defaultId ELSE customUploaderProfileId

\* customUploaderProfileId || defaultUploaderProfileId
EffectiveId(customUploaderProfileId, defaultId) ==
    IF customUploaderProfileId # "" THEN customUploaderProfileId ELSE defaultId

\* The bookkeeping of one upload() invocation: its arguments, where it stands,
\* the per-file uploads in flight (pending), the configuration each started
\* upload read when it was called (requestConfig, one entry per backend upload
\* call), the configuration its request was built from (builtFrom),
\* how each upload settled and in which order (completed), successRes and
\* failRes, and everything the call did
\* to the outside: notifications shown, the lists given to history.add, the
\* events sent to the window, the clipboard operations.
NewCall(files, customUploaderProfileId, isFromFileManage) ==
    [files |-> files,
     customUploaderProfileId |-> customUploaderProfileId,
     isFromFileManage |-> isFromFileManage,
     state |-> "returned",
     uploaderProfileId |-> "",
     uploaderName |-> "",
     pending |-> {},
     requestConfig |-> <<>>,
     builtFrom |-> <<>>,
     settled |-> <<>>,
     completed |-> <<>>,
     successRes |-> <<>>,
     failRes |-> <<>>,
     notifications |-> <<>>,
     historyAdd |-> <<>>,
     sent |-> <<>>,
     clip |-> <<>>]

\* the two messages of line 75 exchanged
ResolutionFailureExchanged(customUploaderProfileId, profiles) ==
    IF customUploaderProfileId # "" THEN BodyProfileNotFound
    ELSE IF Len(profiles) > 0 THEN BodyNoProfile
    ELSE BodyDefaultNotSet

\* The message of the resolution failure (lines 70-80).
ResolutionFailure(customUploaderProfileId, profiles) ==
    IF customUploaderProfileId # "" THEN BodyProfileNotFound
    ELSE IF Len(profiles) > 0 THEN BodyDefaultNotSet
    ELSE BodyNoProfile

\* baseInfo of file i of call c (lines 97-107); the pair <<c, i>> stands for
\* the fresh uuid of the record.
BaseInfo(c, i, call) ==
    [id |-> <<c, i>>, path |-> call.files[i], uploaderProfileId |-> call.uploaderProfileId]
\* the failure record without the backend's description
FailRecordNoMessage(c, i, call, res) == [errorMessage |-> ""] @@ BaseInfo(c, i, call)

\* { ...baseInfo, ...res.data } and { ...baseInfo, errorMessage: res.desc }
SuccessRecord(c, i, call, res) == [url |-> res.url] @@ BaseInfo(c, i, call)
FailRecord(c, i, call, res) == [errorMessage |-> res.desc] @@ BaseInfo(c, i, call)

First(s) == IF Len(s) > 0 THEN s[1] ELSE Undefined

\* history is given the successes alone
handleAddHistorySuccessOnly(call, uploadedData) ==
    [call EXCEPT !.historyAdd = Append(@, call.successRes),
                 !.sent = Append(@, "uploaded-files-get-reply")]

\* handleAddHistory (lines 247-252): history.add and the push of the history.
handleAddHistory(call, uploadedData) ==
    [call EXCEPT !.historyAdd = Append(@, uploadedData),
                 !.sent = Append(@, "uploaded-files-get-reply")]

\* the successes ahead of the failures
UploadedDataSuccessFirst(call) == call.successRes \o call.failRes

\* [...failRes, ...successRes] (line 118)
UploadedData(call) == call.failRes \o call.successRes

\* Lines 118-132: what runs once Promise.all has fulfilled.
AfterAll(w, c, conf) ==
    LET call == w.calls[c]
        added == handleAddHistory(call, UploadedData(call))
        replied == IF call.isFromFileManage
                   THEN [added EXCEPT !.sent = Append(@, "file-upload-reply")]
                   ELSE added
        shown == IF Len(call.files) > 1
                 THEN handleBatchUploaded(Len(call.successRes), Len(call.failRes),
                                          w.clipboard)
                 ELSE handleSingleUploaded(First(call.successRes), First(call.failRes),
                                           conf, w.clipboard)
        caught == IF shown.threw
                  THEN <<Notification(TitleUploadError, shown.message)>>
                  ELSE <<>>
    IN  [w EXCEPT
            !.calls[c] = [replied EXCEPT
                            !.notifications = @ \o shown.notes \o caught,
                            !.clip = @ \o shown.ops,
                            !.state = IF shown.threw THEN "caught" ELSE "done"],
            !.clipboard = shown.clipboard,
            !.timers = @ \o [k \in 1..Len(shown.scheduled) |->
                                [call |-> c, preClipBoardText |-> shown.scheduled[k],
                                 delay |-> RestoreDelay]]]

\* upload(files, customUploaderProfileId, directoryPath, isFromFileManage) up to
\* its await: resolution, changeOptions, and the start of every per-file
\* upload; each CustomUploader.upload reads this.options (getConfig) before it
\* first suspends.  With no file Promise.all is already fulfilled.
upload(w, files, customUploaderProfileId, isFromFileManage, profiles, defaultId, conf) ==
    LET c == Len(w.calls) + 1
        call == NewCall(files, customUploaderProfileId, isFromFileManage)
        uploaderProfile ==
            FindProfile(profiles, EffectiveId(customUploaderProfileId, defaultId))
    IN  IF uploaderProfile = Undefined
        THEN [w EXCEPT !.calls = Append(@,
                [call EXCEPT !.notifications =
                    <<Notification(TitleUploadError,
                        ResolutionFailure(customUploaderProfileId, profiles))>>])]
        ELSE IF uploaderProfile.uploaderName \notin Registry
        THEN [w EXCEPT !.calls = Append(@,
                [call EXCEPT !.notifications =
                    <<Notification(TitleUploadError,
                        BodyUploaderNotFound(uploaderProfile.uploaderName))>>])]
        ELSE LET name == uploaderProfile.uploaderName
                 changed == [w.options EXCEPT ![name] = uploaderProfile.uploaderOptions]
                 started ==
                    [call EXCEPT
                        !.state = "uploading",
                        !.uploaderProfileId = uploaderProfile.id,
                        !.uploaderName = name,
                        !.pending = 1..Len(files),
                        !.requestConfig = [i \in 1..Len(files) |-> getConfig(changed[name])]]
                 w1 == [w EXCEPT !.options = changed, !.calls = Append(@, started)]
             IN  IF Len(files) = 0 THEN AfterAll(w1, c, conf) ELSE w1

\* this.options read again when the request is built, after the await
UsedConfigShared(call, i) == getConfig(options[call.uploaderName])

\* The configuration requestOpetion is built from (part_001 lines 40-49): the
\* local uploaderOptions that getConfig() returned when upload was called.
UsedConfig(call, i) == call.requestConfig[i]

\* The outcomes the backend of a call can produce for its file i.
BackendOutcomes(call, i) ==
    IF call.uploaderName = CustomName
    THEN {CustomUploaderUpload(UsedConfig(call, i), run) : run \in CustomRuns}
    ELSE OtherOutcomes

\* The rest of the per-file callback (lines 108-114) once uploader.upload has
\* settled, and what it wakes: a rejection rejects Promise.all at once (catch,
\* lines 129-132); the last fulfilment fulfils it (AfterAll).
Settle(w, c, i, outcome, conf) ==
    LET call == w.calls[c]
    IN  IF outcome.thrown
        THEN [w EXCEPT !.calls[c] =
                [call EXCEPT
                    !.pending = @ \ {i},
                    !.builtFrom = (i :> UsedConfig(call, i)) @@ @,
                    !.settled = (i :> outcome) @@ @,
                    !.completed = Append(@, i),
                    !.state = IF @ = "uploading" THEN "caught" ELSE @,
                    !.notifications =
                        IF call.state = "uploading"
                        THEN Append(@, Notification(TitleUploadError, outcome.message))
                        ELSE @]]
        ELSE LET pushed ==
                    [call EXCEPT
                        !.pending = @ \ {i},
                        !.builtFrom = (i :> UsedConfig(call, i)) @@ @,
                        !.settled = (i :> outcome) @@ @,
                        !.completed = Append(@, i),
                        !.successRes = IF outcome.res.success
                                       THEN Append(@, SuccessRecord(c, i, call, outcome.res))
                                       ELSE @,
                        !.failRes = IF outcome.res.success
                                    THEN @
                                    ELSE Append(@, FailRecord(c, i, call, outcome.res))]
                 w1 == [w EXCEPT !.calls[c] = pushed]
             IN  IF pushed.pending = {} /\ pushed.state = "uploading"
                 THEN AfterAll(w1, c, conf)
                 ELSE w1

\* uploadByDifferentUploaderProfileIds (lines 46-58).
\* no Set: every id kept, repeated ones too
DistinctKeepAll(ids) == ids

RECURSIVE Distinct(_)
\* [...new Set(ids)]: the distinct ids in insertion order
Distinct(ids) ==
    IF ids = <<>> THEN <<>>
    ELSE LET front == Distinct(SubSeq(ids, 1, Len(ids) - 1))
             last == ids[Len(ids)]
         IN  IF \E k \in 1..Len(front) : front[k] = last THEN front ELSE Append(front, last)

IsId(item, id) == item.id = id

\* data.filter(item => item.id === id).map(item => item.path)
FilesPath(data, id) ==
    LET kept == SelectSeq(data, LAMBDA item : IsId(item, id))
    IN  [k \in 1..Len(kept) |-> kept[k].path]

NewData(data) ==
    LET uploaderProfileIds == Distinct([k \in 1..Len(data) |-> data[k].id])
    IN  [g \in 1..Len(uploaderProfileIds) |->
            [id |-> uploaderProfileIds[g], filesPath |-> FilesPath(data, uploaderProfileIds[g])]]

RECURSIVE UploadEach(_, _, _, _, _)
\* newData.forEach(item => this.upload(item.filesPath, item.id)), each call
\* running to its await before the next one starts
UploadEach(w, newData, profiles, defaultId, conf) ==
    IF newData = <<>> THEN w
    ELSE UploadEach(upload(w, newData[1].filesPath, newData[1].id, FALSE,
                           profiles, defaultId, conf),
                    Tail(newData), profiles, defaultId, conf)

uploadByDifferentUploaderProfileIds(w, data, profiles, defaultId, conf) ==
    UploadEach(w, NewData(data), profiles, defaultId, conf)

-----------------------------------------------------------------------------
\* The state machine.

Configurations ==
    [urlType : UrlTypes, autoCopy : BOOLEAN, autoRecover : BOOLEAN, showNotifaction : BOOLEAN]

IdleProbe == [state |-> "idle", options |-> <<>>, run |-> Undefined, outcome |-> Undefined,
              requests |-> 0]
NoReupload == [data |-> <<>>, first |-> 0, count |-> 0]

Init ==
    /\ \/ uploaderProfiles = <<>> /\ defaultUploaderProfileId = ""
       \/ uploaderProfiles = StoredProfiles /\ defaultUploaderProfileId \in {"", "p1"}
    /\ configuration \in Configurations
    /\ options = [n \in Registry |-> defaultOptions]
    /\ calls = <<>>
    /\ clipboard = "user text"
    /\ timers = <<>>
    /\ reupload = NoReupload
    /\ probe = IdleProbe
    /\ manage = <<>>

TotalFiles(cs) == LET RECURSIVE Sum(_)
                      Sum(k) == IF k = 0 THEN 0 ELSE Len(cs[k].files) + Sum(k - 1)
                  IN  Sum(Len(cs))

Fits(files) == Len(calls) < MaxCalls /\ TotalFiles(calls) + Len(files) <= MaxTotalFiles

Become(w) ==
    /\ calls' = w.calls
    /\ options' = w.options
    /\ clipboard' = w.clipboard
    /\ timers' = w.timers

\* ipcMain.on('file-upload-by-side-menu') (part_000 lines 50-52)
FileUploadBySideMenu ==
    \E n \in 0..MaxFiles :
        LET filesPath == SubSeq(Paths, 1, n)
        IN  /\ Fits(filesPath)
            /\ Become(upload(World, filesPath, "", FALSE,
                             uploaderProfiles, defaultUploaderProfileId, configuration))
            /\ UNCHANGED <<uploaderProfiles, defaultUploaderProfileId, configuration,
                           reupload, probe, manage>>

\* ipcMain.on('file-upload') (part_000 lines 137-139)
FileUpload ==
    \E n \in 0..MaxFiles, uploaderProfileId \in ProfileIds \ {"p2"} :
        LET filesPath == SubSeq(Paths, 1, n)
        IN  /\ Fits(filesPath)
            /\ Become(upload(World, filesPath, uploaderProfileId, TRUE,
                             uploaderProfiles, defaultUploaderProfileId, configuration))
            /\ UNCHANGED <<uploaderProfiles, defaultUploaderProfileId, configuration,
                           reupload, probe, manage>>

\* the history records picked for a new try: the k-th has the k-th path, and
\* the id of a stored profile or of one that is stored no longer
ReuploadData ==
    UNION {{[k \in 1..n |-> [id |-> ids[k], path |-> Paths[k]]] : ids \in [1..n -> {"p2", "p9"}]} :
              n \in 1..MaxTotalFiles}

\* ipcMain.on('file-reupload') (part_000 lines 54-56)
FileReupload ==
    \E data \in ReuploadData :
        LET w == uploadByDifferentUploaderProfileIds(World, data, uploaderProfiles,
                     defaultUploaderProfileId, configuration)
        IN  /\ TotalFiles(calls) + Len(data) <= MaxTotalFiles
            /\ Len(calls) + Len(NewData(data)) <= MaxCalls
            /\ Become(w)
            /\ reupload' = [data |-> data, first |-> Len(calls) + 1,
                            count |-> Len(w.calls) - Len(calls)]
            /\ UNCHANGED <<uploaderProfiles, defaultUploaderProfileId, configuration, probe, manage>>

\* One backend upload settles (line 108) and the call goes on from there.
UploadSettled ==
    \E c \in 1..Len(calls) :
        \E i \in calls[c].pending :
            \E outcome \in BackendOutcomes(calls[c], i) :
                /\ Become(Settle(World, c, i, outcome, configuration))
                /\ UNCHANGED <<uploaderProfiles, defaultUploaderProfileId, configuration,
                               reupload, probe, manage>>

\* The setTimeout callback of handleSingleUploaded (lines 224-232); timers of
\* equal delay run in the order they were set.
RestoreClipboard ==
    /\ timers # <<>>
    /\ LET timer == Head(timers)
       IN  /\ clipboard' = timer.preClipBoardText
           /\ calls' = [calls EXCEPT ![timer.call] =
                           [@ EXCEPT !.clip = Append(@, Write(timer.preClipBoardText)),
                                     !.notifications =
                                         Append(@, Notification(TitleRecovered, BodyRecovered))]]
    /\ timers' = Tail(timers)
    /\ UNCHANGED <<uploaderProfiles, defaultUploaderProfileId, configuration, options,
                   reupload, probe, manage>>

Next ==
    \/ FileUploadBySideMenu
    \/ FileUpload
    \/ FileReupload
    \/ UploadSettled
    \/ RestoreClipboard

Spec == Init /\ [][Next]_vars

-----------------------------------------------------------------------------
\* One CustomUploader.upload call on its own: any stored option list, any run.

OptionLists == {defaultOptions, OptionsA, OptionsB, OptionsBad}

CustomInit ==
    /\ uploaderProfiles = StoredProfiles
    /\ defaultUploaderProfileId = ""
    /\ configuration = [urlType |-> "URL", autoCopy |-> FALSE, autoRecover |-> FALSE,
                        showNotifaction |-> TRUE]
    /\ options = [n \in Registry |-> defaultOptions]
    /\ calls = <<>>
    /\ clipboard = "user text"
    /\ timers = <<>>
    /\ reupload = NoReupload
    /\ probe \in {[state |-> "called", options |-> o, run |-> r, outcome |-> Undefined,
                     requests |-> 0] :
                     o \in OptionLists, r \in CustomRuns}
    /\ manage = <<>>

\* changeOptions(newOptions) then upload(filePath, fileName), to its settlement
CustomUploaderSettles ==
    /\ probe.state = "called"
    /\ probe' = [probe EXCEPT !.state = "settled",
                              !.outcome = CustomUploaderUpload(getConfig(probe.options),
                                                               probe.run),
                              !.requests = CustomUploaderRequests(getConfig(probe.options),
                                                                  probe.run)]
    /\ UNCHANGED <<uploaderProfiles, defaultUploaderProfileId, configuration, options,
                   calls, clipboard, timers, reupload, manage>>

CustomNext == CustomUploaderSettles

CustomSpec == CustomInit /\ [][CustomNext]_vars

-----------------------------------------------------------------------------
\* File management (uploaderManager.ts lines 135-176, part_000 lines 128-144).

FileOperations == {"getFileList", "deleteFile", "createDirectory"}

\* The optional operations a backend has beside upload: CustomUploader defines
\* none of them, the other backend all three.
Operations(uploaderName) == IF uploaderName = OtherName THEN FileOperations ELSE {}

\* What an operation of the other backend resolves with: a file list for
\* getFileList, whether it went well for the other two.
OperationResults(op) ==
    IF op = "getFileList" THEN {<<>>, <<"a.png">>} ELSE BOOLEAN

ReplyChannel(op) ==
    CASE op = "getFileList" -> "file-list-get-reply"
      [] op = "deleteFile" -> "file-delete-reply"
      [] op = "createDirectory" -> "directory-create-reply"

\* the payload of the else branches (lines 141, 151, 161)
AbsentPayload(op) == IF op = "getFileList" THEN <<>> ELSE FALSE

\* a profile that is not found falls back to the default profile
getUploaderOrDefault(opts, profiles, id) ==
    LET found == FindProfile(profiles, id)
        uploaderProfile == IF found = Undefined
                           THEN FindProfile(profiles, defaultUploaderProfileId)
                           ELSE found
    IN  IF uploaderProfile = Undefined
        THEN [found |-> FALSE, uploaderName |-> "", options |-> opts]
        ELSE IF uploaderProfile.uploaderName \notin Registry
        THEN [found |-> FALSE, uploaderName |-> "", options |-> opts]
        ELSE [found |-> TRUE, uploaderName |-> uploaderProfile.uploaderName,
              options |-> [opts EXCEPT ![uploaderProfile.uploaderName] =
                                           uploaderProfile.uploaderOptions]]

\* getUploader (lines 165-176): the profile by its id alone, then the backend by
\* its name, which is given the profile's options; found is FALSE where the
\* source returns undefined.
getUploader(opts, profiles, id) ==
    LET uploaderProfile == FindProfile(profiles, id)
    IN  IF uploaderProfile = Undefined
        THEN [found |-> FALSE, uploaderName |-> "", options |-> opts]
        ELSE IF uploaderProfile.uploaderName \notin Registry
        THEN [found |-> FALSE, uploaderName |-> "", options |-> opts]
        ELSE [found |-> TRUE, uploaderName |-> uploaderProfile.uploaderName,
              options |-> [opts EXCEPT ![uploaderProfile.uploaderName] =
                                           uploaderProfile.uploaderOptions]]

\* The bookkeeping of one file-management call: the operation, the id it was
\* given, whether it still awaits the backend, the backend operations it
\* invoked and the events it sent to the window.
ManageCall(op, id, got) ==
    IF got.found /\ op \in Operations(got.uploaderName)
    THEN [op |-> op, uploaderProfileId |-> id, state |-> "awaiting",
          invoked |-> <<[uploaderName |-> got.uploaderName, op |-> op]>>,
          sent |-> <<>>]
    ELSE [op |-> op, uploaderProfileId |-> id, state |-> "replied",
          invoked |-> <<>>,
          sent |-> <<[channel |-> ReplyChannel(op), payload |-> AbsentPayload(op)]>>]

\* the ids the file manager sends, "" when no profile is selected
ManageIds == ProfileIds \cup {""}

\* getFileList, deleteFile and createDirectory up to their await or, on the
\* else branch, to their end (lines 135-163)
ManageStarts(op, id) ==
    LET got == getUploader(options, uploaderProfiles, id)
    IN  /\ manage' = Append(manage, ManageCall(op, id, got))
        /\ options' = got.options

\* ipcMain.on('file-list-get') (part_000 lines 129-131)
FileListGet ==
    /\ Len(manage) < MaxManage
    /\ \E id \in ManageIds : ManageStarts("getFileList", id)
    /\ UNCHANGED <<uploaderProfiles, defaultUploaderProfileId, configuration, calls,
                   clipboard, timers, reupload, probe>>

\* ipcMain.on('file-delete') (part_000 lines 133-135)
FileDelete ==
    /\ Len(manage) < MaxManage
    /\ \E id \in ManageIds : ManageStarts("deleteFile", id)
    /\ UNCHANGED <<uploaderProfiles, defaultUploaderProfileId, configuration, calls,
                   clipboard, timers, reupload, probe>>

\* ipcMain.on('directory-create') (part_000 lines 141-143)
DirectoryCreate ==
    /\ Len(manage) < MaxManage
    /\ \E id \in ManageIds : ManageStarts("createDirectory", id)
    /\ UNCHANGED <<uploaderProfiles, defaultUploaderProfileId, configuration, calls,
                   clipboard, timers, reupload, probe>>

\* The awaited backend operation resolves and its result is sent (lines
\* 138-139, 148-149, 158-159).
OperationSettled ==
    /\ \E k \in 1..Len(manage) :
          /\ manage[k].state = "awaiting"
          /\ \E data \in OperationResults(manage[k].op) :
                manage' = [manage EXCEPT
                              ![k].state = "replied",
                              ![k].sent = Append(@, [channel |-> ReplyChannel(manage[k].op),
                                                     payload |-> data])]
    /\ UNCHANGED <<uploaderProfiles, defaultUploaderProfileId, configuration, options,
                   calls, clipboard, timers, reupload, probe>>

ManageInit ==
    /\ \/ uploaderProfiles = <<>> /\ defaultUploaderProfileId = ""
       \/ uploaderProfiles = StoredProfiles /\ defaultUploaderProfileId \in {"", "p1", "p3"}
    /\ configuration = [urlType |-> "URL", autoCopy |-> FALSE, autoRecover |-> FALSE,
                        showNotifaction |-> TRUE]
    /\ options = [n \in Registry |-> defaultOptions]
    /\ calls = <<>>
    /\ clipboard = "user text"
    /\ timers = <<>>
    /\ reupload = NoReupload
    /\ probe = IdleProbe
    /\ manage = <<>>

ManageNext ==
    \/ FileListGet
    \/ FileDelete
    \/ DirectoryCreate
    \/ OperationSettled

ManageSpec == ManageInit /\ [][ManageNext]_vars

-----------------------------------------------------------------------------
\* Vocabulary of the properties, stated over what a call was given and what it
\* did to the outside.

CallIds == 1..Len(calls)

\* the stored profile an upload() call is to use, by its arguments
Wanted(call) ==
    IF call.customUploaderProfileId = "" THEN defaultUploaderProfileId
    ELSE call.customUploaderProfileId
Stored(id) == \E k \in 1..Len(uploaderProfiles) : uploaderProfiles[k].id = id
KnownBackend(id) ==
    \E k \in 1..Len(uploaderProfiles) :
        uploaderProfiles[k].id = id /\ uploaderProfiles[k].uploaderName \in {"custom", "other"}
ResolvesBackend(call) == Stored(Wanted(call)) /\ KnownBackend(Wanted(call))

\* every backend upload of the call has settled, and with a returned outcome
AllSettled(call) == DOMAIN call.settled = 1..Len(call.files)
AllReturned(call) == AllSettled(call) /\ \A i \in DOMAIN call.settled : ~call.settled[i].thrown

IsFailRecord(r) == "errorMessage" \in DOMAIN r
Texts(ops, op) == SelectSeq(ops, LAMBDA o : o.op = op)
AllRecords(call) ==
    UNION {{call.historyAdd[a][k] : k \in 1..Len(call.historyAdd[a])} :
              a \in 1..Len(call.historyAdd)}

\* C1: an upload() call that resolves a profile and a backend and whose backend
\* uploads all return an outcome calls history.add exactly once, with exactly
\* one record per submitted file, that record's path being the file, and
\* successRes.length + failRes.length = files.length.
C1_OneRecordPerFile ==
    \A c \in CallIds :
        LET call == calls[c]
        IN  (ResolvesBackend(call) /\ AllReturned(call)) =>
                /\ Len(call.historyAdd) = 1
                /\ Len(call.historyAdd[1]) = Len(call.files)
                /\ \A i \in 1..Len(call.files) :
                      Cardinality({k \in 1..Len(call.historyAdd[1]) :
                                      /\ call.historyAdd[1][k].id = <<c, i>>
                                      /\ call.historyAdd[1][k].path = call.files[i]}) = 1
                /\ Len(call.successRes) + Len(call.failRes) = Len(call.files)

\* a batch of two files, one uploaded and one failed, has been recorded
C1_Witness ==
    \E c \in CallIds :
        /\ Len(calls[c].files) = 2
        /\ ResolvesBackend(calls[c]) /\ AllReturned(calls[c])
        /\ Len(calls[c].successRes) = 1 /\ Len(calls[c].failRes) = 1
        /\ Len(calls[c].historyAdd) = 1

\* C2: when the backend's upload raises for one file of a batch, the exception
\* becomes a failure record of that file carrying its message, and once every
\* upload has settled the batch has given history one record per file.
C2_ExceptionBecomesFailureRecord ==
    \A c \in CallIds :
        LET call == calls[c]
        IN  (ResolvesBackend(call) /\ AllSettled(call)) =>
                /\ Len(call.historyAdd) = 1
                /\ Len(call.historyAdd[1]) = Len(call.files)
                /\ \A i \in DOMAIN call.settled :
                      call.settled[i].thrown =>
                          \E k \in 1..Len(call.historyAdd[1]) :
                              /\ call.historyAdd[1][k].id = <<c, i>>
                              /\ IsFailRecord(call.historyAdd[1][k])
                              /\ call.historyAdd[1][k].errorMessage = call.settled[i].message

\* C3: an upload() call with isFromFileManage = TRUE never writes the clipboard
\* and never shows a batch or single-file result notification.
C3_ManagedIsSilent ==
    \A c \in CallIds :
        calls[c].isFromFileManage =>
            /\ Texts(calls[c].clip, "writeText") = <<>>
            /\ \A k \in 1..Len(calls[c].notifications) :
                  calls[c].notifications[k].title \notin
                      {"batch-success", "batch-fail", "batch-end",
                       "upload-success", "upload-fail", "clipboard-recovered"}

\* C4: an upload() call that cannot resolve a profile, or whose profile names a
\* backend the registry does not know, shows exactly one notification, starts
\* no backend upload, gives history nothing and sends the window nothing.
C4_ResolutionFailureIsInert ==
    \A c \in CallIds :
        LET call == calls[c]
        IN  ~ResolvesBackend(call) =>
                /\ Len(call.notifications) = 1
                /\ call.requestConfig = <<>> /\ call.pending = {} /\ DOMAIN call.settled = {}
                /\ call.successRes = <<>> /\ call.failRes = <<>>
                /\ call.historyAdd = <<>>
                /\ call.sent = <<>>
                /\ call.clip = <<>>

\* both kinds have happened: an id stored no longer, and a profile of an unknown backend
C4_Witness ==
    /\ \E c \in CallIds :
          /\ calls[c].customUploaderProfileId = "p9" /\ Len(calls[c].files) = 2
          /\ Len(calls[c].notifications) = 1
    /\ \E c \in CallIds :
          /\ calls[c].customUploaderProfileId = "p4" /\ Stored("p4")
          /\ Len(calls[c].notifications) = 1

\* C5: the resolution failure is 'profile not found' for an explicit id that no
\* stored profile has, 'no profile configured' for no explicit id and no stored
\* profile, 'default not set' for no explicit id, some stored profile and none
\* with the default id; the three messages differ pairwise.
C5_ResolutionMessages ==
    \A c \in CallIds :
        LET call == calls[c]
            explicit == call.customUploaderProfileId
            body == call.notifications[1].body
        IN  /\ (explicit # "" /\ ~Stored(explicit)) =>
                   (call.notifications # <<>> /\ body = "profile-not-found")
            /\ (explicit = "" /\ Len(uploaderProfiles) = 0) =>
                   (call.notifications # <<>> /\ body = "no-profile-configured")
            /\ (explicit = "" /\ Len(uploaderProfiles) > 0 /\ ~Stored(defaultUploaderProfileId)) =>
                   (call.notifications # <<>> /\ body = "default-not-set")

\* one run has met 'default not set' and 'profile not found'
C5_Witness ==
    /\ Len(calls) = 2
    /\ calls[1].customUploaderProfileId = "" /\ Len(uploaderProfiles) > 0
    /\ calls[1].notifications = <<Notification("upload-error", "default-not-set")>>
    /\ calls[2].customUploaderProfileId = "p9"
    /\ calls[2].notifications = <<Notification("upload-error", "profile-not-found")>>

\* C6: uploadByDifferentUploaderProfileIds on items of k distinct ids calls
\* upload k times, in the order in which the ids first appear; the call of an
\* id gets the paths of exactly the items with that id, in input order, so
\* every item is in exactly one call.
C6_OneCallPerProfileId ==
    reupload.first > 0 =>
        LET data == reupload.data
            ids == {data[k].id : k \in 1..Len(data)}
            At(id) == {k \in 1..Len(data) : data[k].id = id}
            FirstAt(id) == CHOOSE k \in At(id) : \A j \in At(id) : k <= j
            Rank(id) == Cardinality({o \in ids : FirstAt(o) < FirstAt(id)}) + 1
            made == reupload.first..(reupload.first + reupload.count - 1)
        IN  /\ reupload.count = Cardinality(ids)
            /\ \A id \in ids :
                  LET call == calls[reupload.first + Rank(id) - 1]
                  IN  /\ call.customUploaderProfileId = id
                      /\ ~call.isFromFileManage
                      /\ Len(call.files) = Cardinality(At(id))
                      /\ \A j \in 1..Len(call.files) :
                            \E k \in At(id) :
                                /\ Cardinality({m \in At(id) : m < k}) = j - 1
                                /\ call.files[j] = data[k].path
            /\ \A k \in 1..Len(data) :
                  Cardinality({cj \in made \X (1..Len(data)) :
                                  /\ cj[2] <= Len(calls[cj[1]].files)
                                  /\ calls[cj[1]].files[cj[2]] = data[k].path}) = 1

\* three items of two ids, the items of the first id apart: two calls
C6_Witness ==
    /\ Len(reupload.data) = 3
    /\ reupload.data[1].id = "p9" /\ reupload.data[2].id = "p2" /\ reupload.data[3].id = "p9"
    /\ reupload.count = 2
    /\ calls[reupload.first].files = <<"a.png", "c.png">>
    /\ calls[reupload.first + 1].files = <<"b.png">>

\* C7: every failure record given to history has a non-empty errorMessage,
\* whatever failure outcome the backend returned.
C7_FailureMessageNonEmpty ==
    \A c \in CallIds :
        \A r \in AllRecords(calls[c]) : IsFailRecord(r) => r.errorMessage # ""

\* C7 as amended: every failure record given to history carries as
\* errorMessage the description of the failure outcome its backend upload
\* returned, unchanged; it is non-empty when that description is, and every
\* failure record of a CustomUploader upload is non-empty when the error it
\* met had a message.
C7_FailureMessageIsBackendDesc ==
    \A c \in CallIds :
        \A r \in AllRecords(calls[c]) :
            IsFailRecord(r) =>
                /\ r.id[1] = c /\ r.id[2] \in DOMAIN calls[c].settled
                /\ ~calls[c].settled[r.id[2]].thrown
                /\ ~calls[c].settled[r.id[2]].res.success
                /\ r.errorMessage = calls[c].settled[r.id[2]].res.desc
                /\ (calls[c].uploaderName = "custom" =>
                       r.errorMessage \in {"upload-failed", "ENOENT: no such file",
                                           "Network Error"})

\* history holds a failure record with a message and one without
C7_Witness ==
    /\ \E c \in CallIds : \E r \in AllRecords(calls[c]) :
          IsFailRecord(r) /\ r.errorMessage = ""
    /\ \E c \in CallIds : \E r \in AllRecords(calls[c]) :
          IsFailRecord(r) /\ r.errorMessage = "Network Error"

\* the entry of an option list with a name, or "" without one
OptionValue(opts, name) ==
    IF \E k \in 1..Len(opts) : opts[k].name = name
    THEN opts[CHOOSE k \in 1..Len(opts) : opts[k].name = name].value
    ELSE ""

\* C8: CustomUploader.upload never raises to its caller: an error while
\* reading the file or computing the length, while parsing the query-parameter
\* template, or in the HTTP request and its response ends in a returned outcome
\* with success = false and the error's message, and a response without
\* data.<responseUrlFieldName> ends in a returned failure.
C8_CustomUploaderNeverRaises ==
    probe.state = "settled" =>
        LET run == probe.run
            outcome == probe.outcome
            requestParams == OptionValue(probe.options, "requestParams")
            badParams == requestParams \notin {"", "{}", "{\"k\":\"v\"}"}
            field == OptionValue(probe.options, "responseUrlFieldName")
            lacking == run.body.kind # "data" \/ field \notin DOMAIN run.body.data
        IN  /\ ~outcome.thrown
            /\ run.lengthError.raised =>
                  outcome.res = [success |-> FALSE, desc |-> run.lengthError.message]
            /\ (~run.lengthError.raised /\ badParams) =>
                  outcome.res = [success |-> FALSE,
                                 desc |-> "Unexpected token k in JSON at position 1"]
            /\ (~run.lengthError.raised /\ ~badParams /\ run.requestError.raised) =>
                  outcome.res = [success |-> FALSE, desc |-> run.requestError.message]
            /\ (~run.lengthError.raised /\ ~badParams /\ ~run.requestError.raised /\ lacking) =>
                  (~outcome.res.success /\ outcome.res.desc = "upload-failed")

\* a request that failed has been returned as a failure, and so has a response
\* whose data lacks the field
C8_Witness ==
    /\ probe.state = "settled"
    /\ ~probe.outcome.thrown
    /\ \/ /\ probe.run.requestError.raised /\ ~probe.run.lengthError.raised
          /\ probe.outcome.res.desc = "Network Error"
       \/ /\ probe.run.body.kind = "data" /\ DOMAIN probe.run.body.data = {"link"}
          /\ OptionValue(probe.options, "responseUrlFieldName") = "url"
          /\ ~probe.run.requestError.raised /\ ~probe.run.lengthError.raised
          /\ OptionValue(probe.options, "requestParams") = "{}"
          /\ ~probe.outcome.res.success

TimerOf(c) == \E k \in 1..Len(timers) : timers[k].call = c

\* what C9 asks of call c: the clipboard is read, then the link written, and
\* the restoration, pending under its 5-second timer or done, writes back the
\* text that was read
RestoresClipboard(c) ==
    LET ops == calls[c].clip
    IN  /\ Len(ops) \in {2, 3}
        /\ ops[1].op = "readText"
        /\ ops[2].op = "writeText"
        /\ Len(ops) = 2 =>
              \E k \in 1..Len(timers) :
                  /\ timers[k].call = c
                  /\ timers[k].preClipBoardText = ops[1].text
                  /\ timers[k].delay = 5000
        /\ Len(ops) = 3 => (ops[3] = Write(ops[1].text) /\ ~TimerOf(c))

SingleSuccess(c) ==
    /\ Len(calls[c].files) = 1
    /\ Len(calls[c].successRes) = 1

\* C9: a single-file upload outside the file manager that succeeds with
\* autoCopy and autoRecover set reads the clipboard, writes the link, and after
\* the 5-second delay writes back exactly the text it read.
C9_ClipboardRestored ==
    \A c \in CallIds :
        (/\ SingleSuccess(c)
         /\ ~calls[c].isFromFileManage
         /\ configuration.autoCopy /\ configuration.autoRecover) => RestoresClipboard(c)

\* C9 holds of the three url types that have a format.
RestoredWhenFormatted ==
    \A c \in CallIds :
        (/\ SingleSuccess(c)
         /\ ~calls[c].isFromFileManage
         /\ configuration.urlType \in {"URL", "HTML", "Markdown"}
         /\ configuration.autoCopy /\ configuration.autoRecover) => RestoresClipboard(c)

\* C10: for a single-file success with autoCopy set, the text written to the
\* clipboard is the url the backend returned when urlType is URL, the img tag
\* of it when HTML, the Markdown image link of it when Markdown.
C10_ClipboardText ==
    \A c \in CallIds :
        (SingleSuccess(c) /\ configuration.autoCopy
            /\ configuration.urlType \in {"URL", "HTML", "Markdown"}) =>
            LET written == Texts(calls[c].clip, "writeText")
            IN  /\ calls[c].settled[1].res.url = "https://x/y.png"
                /\ written # <<>>
                /\ configuration.urlType = "URL" => written[1].text = "https://x/y.png"
                /\ configuration.urlType = "HTML" =>
                      written[1].text = "<img src=\"https://x/y.png\" />"
                /\ configuration.urlType = "Markdown" =>
                      written[1].text = "![https://x/y.png](https://x/y.png)"

\* the Markdown link is on the clipboard
C10_Witness ==
    /\ configuration.urlType = "Markdown" /\ configuration.autoCopy
    /\ \E c \in CallIds : SingleSuccess(c) /\ calls[c].state = "done"
    /\ clipboard = "![https://x/y.png](https://x/y.png)"

\* the backend uploads of a call that returned success, and those that returned
\* failure
Succeeded(call) == {i \in DOMAIN call.settled :
                       ~call.settled[i].thrown /\ call.settled[i].res.success}
Failed(call) == {i \in DOMAIN call.settled :
                    ~call.settled[i].thrown /\ ~call.settled[i].res.success}

\* C11: an upload outside the file manager of more than one file whose backend
\* uploads all return an outcome shows exactly one notification: 'all
\* succeeded' with the number of successes when nothing failed, 'all failed'
\* with the number of failures when nothing succeeded, 'partial' with both
\* numbers otherwise.
C11_OneBatchNotification ==
    \A c \in CallIds :
        LET call == calls[c]
            s == Cardinality(Succeeded(call))
            f == Cardinality(Failed(call))
        IN  (/\ ~call.isFromFileManage
             /\ Len(call.files) > 1
             /\ ResolvesBackend(call) /\ AllReturned(call)) =>
                /\ Len(call.notifications) = 1
                /\ f = 0 => call.notifications[1] =
                               [title |-> "batch-success", body |-> "total:" \o ToString(s)]
                /\ s = 0 => call.notifications[1] =
                               [title |-> "batch-fail", body |-> "total:" \o ToString(f)]
                /\ (s > 0 /\ f > 0) =>
                      call.notifications[1] =
                          [title |-> "batch-end",
                           body |-> "success:" \o ToString(s) \o ",fail:" \o ToString(f)]

\* a batch of two files that both failed has been summed up
C11_Witness ==
    \E c \in CallIds :
        /\ ~calls[c].isFromFileManage
        /\ Len(calls[c].files) = 2
        /\ ResolvesBackend(calls[c]) /\ AllReturned(calls[c])
        /\ Cardinality(Failed(calls[c])) = 2
        /\ calls[c].notifications = <<[title |-> "batch-fail", body |-> "total:2"]>>

\* C12: an upload() call with no files that resolves a profile and a backend
\* gives history an empty list and then does nothing more: no notification, no
\* clipboard operation, no error.
C12_EmptyUploadIsNoOp ==
    \A c \in CallIds :
        LET call == calls[c]
        IN  (Len(call.files) = 0 /\ ResolvesBackend(call)) =>
                /\ call.historyAdd = << <<>> >>
                /\ call.notifications = <<>>
                /\ call.clip = <<>>
                /\ call.state = "done"

\* the backend of the stored profile with this id has the operation
Implements(id, op) ==
    /\ op \in {"getFileList", "deleteFile", "createDirectory"}
    /\ \E k \in 1..Len(uploaderProfiles) :
          uploaderProfiles[k].id = id /\ uploaderProfiles[k].uploaderName = "other"

OwnChannel(op) ==
    CASE op = "getFileList" -> "file-list-get-reply"
      [] op = "deleteFile" -> "file-delete-reply"
      [] op = "createDirectory" -> "directory-create-reply"

C14_NothingReportedBeforeEnd ==
    \A c \in CallIds :
        LET call == calls[c]
        IN  (ResolvesBackend(call) /\ call.pending # {}) =>
                /\ call.historyAdd = <<>>
                /\ call.sent = <<>>
                /\ call.notifications = <<>>

\* C14 holds of a batch as long as none of its backend uploads has raised.
NothingReportedWhileReturning ==
    \A c \in CallIds :
        LET call == calls[c]
        IN  (/\ ResolvesBackend(call) /\ call.pending # {}
             /\ \A i \in DOMAIN call.settled : ~call.settled[i].thrown) =>
                /\ call.historyAdd = <<>>
                /\ call.sent = <<>>
                /\ call.notifications = <<>>

\* the option list of the stored profile a call resolved
OwnOptions(call) ==
    uploaderProfiles[CHOOSE k \in 1..Len(uploaderProfiles) :
                        uploaderProfiles[k].id = call.uploaderProfileId].uploaderOptions

\* C15: when upload() calls for different profiles of the one CustomUploader
\* instance overlap, every request of a call is built from the options of that
\* call's own profile, whatever a later call has passed to changeOptions since.
C15_OwnProfileOptions ==
    \A c \in CallIds :
        LET call == calls[c]
        IN  call.uploaderName = "custom" =>
                \A i \in DOMAIN call.builtFrom :
                    /\ DOMAIN call.builtFrom[i] =
                          {OwnOptions(call)[k].name : k \in 1..Len(OwnOptions(call))}
                    /\ \A n \in DOMAIN call.builtFrom[i] :
                          call.builtFrom[i][n] = OptionValue(OwnOptions(call), n)

\* the upload for p1 finished after the one for p2 had started and finished (it
\* read p2's link from the clipboard), with the shared instance holding p2's
\* options, and its request had been built for p1's response field
C15_Witness ==
    /\ Len(calls) = 2
    /\ configuration.urlType = "HTML" /\ configuration.autoCopy /\ configuration.autoRecover
    /\ calls[1].uploaderProfileId = "p1" /\ calls[2].uploaderProfileId = "p2"
    /\ options["custom"] = OptionsB
    /\ SingleSuccess(1) /\ SingleSuccess(2)
    /\ calls[1].clip # <<>>
    /\ calls[1].clip[1] = Read("<img src=\"https://x/y.png\" />")
    /\ calls[1].builtFrom[1]["responseUrlFieldName"] = "url"

\* the files of a call in the order their uploads completed, those that failed
\* and those that succeeded
FailedInOrder(call) == SelectSeq(call.completed, LAMBDA i : i \in Failed(call))
SucceededInOrder(call) == SelectSeq(call.completed, LAMBDA i : i \in Succeeded(call))

\* C16: the list an upload() call gives history.add is its failure records
\* followed by its success records, the failures among themselves and the
\* successes among themselves in the order their uploads completed; the list
\* stays as it was given.
C16_FailuresThenSuccessesInCompletionOrder ==
    \A c \in CallIds :
        LET call == calls[c]
            nf == Len(FailedInOrder(call))
            ns == Len(SucceededInOrder(call))
        IN  \A a \in 1..Len(call.historyAdd) :
                LET list == call.historyAdd[a]
                IN  /\ Len(list) = nf + ns
                    /\ \A k \in 1..nf :
                          /\ IsFailRecord(list[k])
                          /\ list[k].id = <<c, FailedInOrder(call)[k]>>
                          /\ list[k].path = call.files[FailedInOrder(call)[k]]
                    /\ \A k \in 1..ns :
                          /\ ~IsFailRecord(list[nf + k])
                          /\ list[nf + k].id = <<c, SucceededInOrder(call)[k]>>
                          /\ list[nf + k].path = call.files[SucceededInOrder(call)[k]]

\* the second file succeeded first and the first file failed after it: history
\* was given the failure of the first file ahead of the success of the second
C16_Witness ==
    \E c \in CallIds :
        /\ calls[c].completed = <<2, 1>>
        /\ Failed(calls[c]) = {1} /\ Succeeded(calls[c]) = {2}
        /\ Len(calls[c].historyAdd) = 1
        /\ Len(calls[c].historyAdd[1]) = 2
        /\ calls[c].historyAdd[1][1].id = <<c, 1>>
        /\ calls[c].historyAdd[1][2].id = <<c, 2>>

\* the settled CustomUploader.upload call got a response to its request
Responded ==
    /\ probe.state = "settled"
    /\ probe.requests = 1
    /\ ~probe.run.requestError.raised

\* the response body has data.<responseUrlFieldName>
FieldPresent ==
    /\ probe.run.body.kind = "data"
    /\ OptionValue(probe.options, "responseUrlFieldName") \in DOMAIN probe.run.body.data

FieldValue == probe.run.body.data[OptionValue(probe.options, "responseUrlFieldName")]

\* C17: CustomUploader.upload issues at most one HTTP request and, given a
\* response, returns success with url = data.<responseUrlFieldName> exactly
\* when the body has that field, and the generic failure exactly when it has
\* not.
C17_SuccessWhenFieldPresent ==
    /\ probe.requests <= 1
    /\ Responded =>
          /\ FieldPresent =>
                probe.outcome = [thrown |-> FALSE,
                                 res |-> [success |-> TRUE, url |-> FieldValue]]
          /\ ~FieldPresent =>
                probe.outcome = [thrown |-> FALSE,
                                 res |-> [success |-> FALSE, desc |-> "upload-failed"]]

\* C17 as the code has it: success exactly when the field is there with a
\* non-empty value; a field that is missing or holds the empty string gives the
\* generic failure.
C17_SuccessWhenFieldTruthy ==
    /\ probe.requests <= 1
    /\ Responded =>
          /\ (FieldPresent /\ FieldValue # "") =>
                probe.outcome = [thrown |-> FALSE,
                                 res |-> [success |-> TRUE, url |-> FieldValue]]
          /\ ~(FieldPresent /\ FieldValue # "") =>
                probe.outcome = [thrown |-> FALSE,
                                 res |-> [success |-> FALSE, desc |-> "upload-failed"]]

\* a response whose field is there but empty has been reported as the generic
\* failure
C17_Witness ==
    /\ Responded
    /\ FieldPresent /\ FieldValue = ""
    /\ probe.outcome.res = [success |-> FALSE, desc |-> "upload-failed"]

\* C18: for a single-file success a urlType other than URL, HTML and Markdown
\* is treated as the raw url: the url is written to the clipboard when autoCopy
\* is set, and otherwise shown in a notification when showNotifaction is set.
C18_UnknownUrlTypeShowsRawUrl ==
    \A c \in CallIds :
        LET call == calls[c]
        IN  (/\ SingleSuccess(c) /\ call.state = "done"
             /\ configuration.urlType \notin {"URL", "HTML", "Markdown"}) =>
                /\ configuration.autoCopy =>
                      \E k \in 1..Len(call.clip) :
                          call.clip[k] = [op |-> "writeText", text |-> call.settled[1].res.url]
                /\ (~configuration.autoCopy /\ configuration.showNotifaction) =>
                      \E k \in 1..Len(call.notifications) :
                          call.notifications[k].body = call.settled[1].res.url

\* C19: on the single-file success path every notification is gated by
\* showNotifaction: with the preference off the upload shows none, at the copy
\* step, at the link-display step or at the delayed restoration.
C19_NoNotificationWhenOff ==
    \A c \in CallIds :
        (SingleSuccess(c) /\ ~configuration.showNotifaction) =>
            calls[c].notifications = <<>>

\* C19 holds of the copy step and of the link-display step: with the
\* preference off, a single-file success whose restoration has not run has
\* shown nothing.
NoNotificationBeforeRestoration ==
    \A c \in CallIds :
        (/\ SingleSuccess(c) /\ ~configuration.showNotifaction
         /\ Len(Texts(calls[c].clip, "writeText")) <= 1) =>
            calls[c].notifications = <<>>

\* both restorations of two single-file successes have run, the second upload
\* having completed between the first one's copy and the first one's restoration
\* (it found the first one's link on the clipboard)
BothRestoredOverlapping(c1, c2) ==
    /\ c1 # c2
    /\ SingleSuccess(c1) /\ SingleSuccess(c2)
    /\ ~calls[c1].isFromFileManage /\ ~calls[c2].isFromFileManage
    /\ configuration.autoCopy /\ configuration.autoRecover
    /\ Len(calls[c1].clip) = 3 /\ Len(calls[c2].clip) = 3
    /\ calls[c1].clip[1] = [op |-> "readText", text |-> "user text"]
    /\ calls[c2].clip[1] = [op |-> "readText", text |-> calls[c1].clip[2].text]
    /\ timers = <<>>

\* C20: when two single-file uploads outside the file manager succeed with
\* autoCopy and autoRecover set, the second completing before the first one's
\* restoration, the clipboard holds the user's original text once both
\* restorations have run.
C20_OriginalClipboardAfterBoth ==
    \A c1, c2 \in CallIds :
        BothRestoredOverlapping(c1, c2) => clipboard = "user text"

====
